---- MODULE Spec2Model ----
(***************************************************************************)
(* A model of the chessington engine: the board (board.py), the pieces'    *)
(* move generation (pieces.py) and the coordinate/player types (data.py).  *)
(*                                                                         *)
(* A piece instance is an identifier 1..Len(pieces); pieces[id] holds its  *)
(* class (kind), its player and its moved flag.  The grid maps each square *)
(* to a piece identifier or to None.                                       *)
(***************************************************************************)
EXTENDS Integers, Sequences, FiniteSets, TLC

VARIABLES board, current_player, last_move, pieces, origin, hist, nmoves, returned

vars == <<board, current_player, last_move, pieces, origin, hist, nmoves, returned>>

(***************************************************************************)
(* data.py                                                                 *)
(***************************************************************************)
BOARD_SIZE == 8

WHITE == "WHITE"
BLACK == "BLACK"
Player == {WHITE, BLACK}

\* An opponent() whose two branches return the same player.
opponent_one_sided(player) == IF player = WHITE THEN BLACK ELSE BLACK

opponent(player) == IF player = WHITE THEN BLACK ELSE WHITE

\* Square.at(row, col): a square is the pair <<row, col>>.
at(row, col) == <<row, col>>
row(square) == square[1]
col(square) == square[2]

translate_by(square, vector) == <<row(square) + vector[1], col(square) + vector[2]>>

is_on_board(square) ==
    IF 0 <= row(square) /\ row(square) <= 7
    THEN (IF 0 <= col(square) /\ col(square) <= 7 THEN TRUE ELSE FALSE)
    ELSE FALSE

\* The squares of the grid, and the row-major order in which the code scans them.
Squares == (0 .. BOARD_SIZE - 1) \X (0 .. BOARD_SIZE - 1)
ScanIndex(square) == row(square) * BOARD_SIZE + col(square)

(***************************************************************************)
(* pieces.py: Piece.__init__ and the six classes                           *)
(***************************************************************************)
None == 0
PAWN == "Pawn"
KNIGHT == "Knight"
BISHOP == "Bishop"
ROOK == "Rook"
QUEEN == "Queen"
KING == "King"

\* Piece.__init__: a new piece has not moved.
Piece(kind, player) == [kind |-> kind, player |-> player, moved |-> FALSE]

(***************************************************************************)
(* board.py: the grid                                                      *)
(***************************************************************************)
_create_empty_board == [s \in Squares |-> None]

\* The pieces _create_starting_board constructs, in construction order:
\* the white pawns, the black pawns, the white back row, the black back row.
piece_row == <<ROOK, KNIGHT, BISHOP, QUEEN, KING, BISHOP, KNIGHT, ROOK>>

StartingPieces ==
    [i \in 1 .. 4 * BOARD_SIZE |->
        IF i <= 8 THEN Piece(PAWN, WHITE)
        ELSE IF i <= 16 THEN Piece(PAWN, BLACK)
        ELSE IF i <= 24 THEN Piece(piece_row[i - 16], WHITE)
        ELSE Piece(piece_row[i - 24], BLACK)]

_create_starting_board ==
    [s \in Squares |->
        IF row(s) = 1 THEN col(s) + 1
        ELSE IF row(s) = 6 THEN 8 + col(s) + 1
        ELSE IF row(s) = 0 THEN 16 + col(s) + 1
        ELSE IF row(s) = 7 THEN 24 + col(s) + 1
        ELSE None]

set_piece(b, square, piece) == [b EXCEPT ![square] = piece]

get_piece(b, square) == b[square]

is_square_empty(b, square) == get_piece(b, square) = None

are_squares_empty(b, squares) == \A s \in squares : is_square_empty(b, s)

\* A capture test that takes friendly pieces too.
capture_possible_always(b, ps, current_position, candidate_position) == TRUE

\* Precondition (as in the code): both squares are occupied.
capture_possible(b, ps, current_position, candidate_position) ==
    IF ps[get_piece(b, current_position)].player # ps[get_piece(b, candidate_position)].player
    THEN TRUE
    ELSE FALSE

\* find_piece raises when the piece stands on no square: NotOnBoard models the raise.
NotOnBoard == <<>>

\* A find_piece that falls out of its loops with the last square scanned.
find_piece_or_last_square(b, piece_to_find) ==
    LET where == {s \in Squares : b[s] = piece_to_find}
    IN  IF where = {} THEN at(BOARD_SIZE - 1, BOARD_SIZE - 1)
        ELSE CHOOSE s \in where : \A t \in where : ScanIndex(s) <= ScanIndex(t)

find_piece(b, piece_to_find) ==
    LET where == {s \in Squares : b[s] = piece_to_find}
    IN  IF where = {} THEN NotOnBoard
        ELSE CHOOSE s \in where : \A t \in where : ScanIndex(s) <= ScanIndex(t)

(***************************************************************************)
(* pieces.py: move generation.  Every operator returns the list the code   *)
(* returns, in the code's order.  b is the grid, ps the pieces, p a piece  *)
(* that stands on the board.                                               *)
(***************************************************************************)
RECURSIVE ray(_, _, _, _, _)
ray(b, ps, start_position, direction, distance) ==
    LET move_vector == <<direction[1] * distance, direction[2] * distance>>
        candidate_position == translate_by(start_position, move_vector)
    IN  IF is_on_board(candidate_position)
        THEN IF is_square_empty(b, candidate_position)
             THEN <<candidate_position>> \o ray(b, ps, start_position, direction, distance + 1)
             ELSE IF capture_possible(b, ps, start_position, candidate_position)
                  THEN <<candidate_position>>
                  ELSE <<>>
        ELSE <<>>

\* Piece.get_moves_in_direction (Pawn, Bishop, Rook and Queen inherit it).
get_moves_in_direction(b, ps, p, direction) ==
    ray(b, ps, find_piece(b, p), direction, 1)

\* A single step that lands on any square of the board, whoever stands on it.
step_from_unchecked(b, ps, start_position, direction) ==
    LET candidate_position == translate_by(start_position, direction)
    IN  IF is_on_board(candidate_position) THEN <<candidate_position>> ELSE <<>>

\* The body of Knight.get_moves_in_direction and King.get_moves_in_direction
\* after find_piece: one step only.
step_from(b, ps, start_position, direction) ==
    LET candidate_position == translate_by(start_position, direction)
    IN  IF is_on_board(candidate_position)
        THEN IF is_square_empty(b, candidate_position)
             THEN <<candidate_position>>
             ELSE IF capture_possible(b, ps, start_position, candidate_position)
                  THEN <<candidate_position>>
                  ELSE <<>>
        ELSE <<>>

step_in_direction(b, ps, p, direction) == step_from(b, ps, find_piece(b, p), direction)

\* A Knight and a King that slide: the ray of Piece in place of the single step.
Knight_slides(b, ps, p, direction) == ray(b, ps, find_piece(b, p), direction, 1)
King_slides(b, ps, p, direction) == ray(b, ps, find_piece(b, p), direction, 1)

Knight_get_moves_in_direction(b, ps, p, direction) == step_in_direction(b, ps, p, direction)

King_get_moves_in_direction(b, ps, p, direction) == step_in_direction(b, ps, p, direction)

\* A start-rank test that every pawn passes.
is_at_start_position_anywhere(ps, p, current_square) == TRUE

is_at_start_position(ps, p, current_square) ==
    IF (ps[p].player = WHITE /\ row(current_square) = 1)
       \/ (ps[p].player = BLACK /\ row(current_square) = 6)
    THEN TRUE
    ELSE FALSE

\* A diagonal step offered onto any square of the board that holds no piece of
\* the pawn's own player.
check_diagonal_onto_empty(b, ps, start_square, candidate_square) ==
    IF is_on_board(candidate_square)
    THEN IF is_square_empty(b, candidate_square)
         THEN <<candidate_square>>
         ELSE IF capture_possible(b, ps, start_square, candidate_square)
              THEN <<candidate_square>>
              ELSE <<>>
    ELSE <<>>

check_diagonal(b, ps, start_square, candidate_square) ==
    IF is_on_board(candidate_square)
    THEN IF ~is_square_empty(b, candidate_square)
         THEN IF capture_possible(b, ps, start_square, candidate_square)
              THEN <<candidate_square>>
              ELSE <<>>
         ELSE <<>>
    ELSE <<>>

Pawn_get_available_moves(b, ps, p) ==
    LET start_square == find_piece(b, p)
        direction == IF ps[p].player = WHITE THEN 1 ELSE -1
        one == at(row(start_square) + direction, col(start_square))
        two == at(row(one) + direction, col(one))
        forward ==
            IF is_on_board(one)
            THEN IF is_square_empty(b, one)
                 THEN <<one>> \o
                      (IF is_at_start_position(ps, p, start_square)
                       THEN IF is_on_board(two) /\ is_square_empty(b, two)
                            THEN <<two>>
                            ELSE <<>>
                       ELSE <<>>)
                 ELSE <<>>
            ELSE <<>>
    IN  forward
        \o check_diagonal(b, ps, start_square,
                          at(row(start_square) + direction, col(start_square) + 1))
        \o check_diagonal(b, ps, start_square,
                          at(row(start_square) + direction, col(start_square) - 1))

Knight_get_available_moves(b, ps, p) ==
    \* get_upright_moves
    Knight_get_moves_in_direction(b, ps, p, <<2, 1>>)
    \o Knight_get_moves_in_direction(b, ps, p, <<1, 2>>)
    \* get_downright_moves
    \o Knight_get_moves_in_direction(b, ps, p, <<-2, 1>>)
    \o Knight_get_moves_in_direction(b, ps, p, <<-1, 2>>)
    \* get_downleft_moves
    \o Knight_get_moves_in_direction(b, ps, p, <<-1, -2>>)
    \o Knight_get_moves_in_direction(b, ps, p, <<-2, -1>>)
    \* get_upleft_moves
    \o Knight_get_moves_in_direction(b, ps, p, <<2, -1>>)
    \o Knight_get_moves_in_direction(b, ps, p, <<1, -2>>)

\* The direction lists of get_fs_moves + get_bs_moves, and of
\* get_vertical_moves + get_horizontal_moves, in the order the code walks them.
DiagonalDirections == <<(<<1, 1>>), (<<-1, -1>>), (<<-1, 1>>), (<<1, -1>>)>>
OrthogonalDirections == <<(<<1, 0>>), (<<-1, 0>>), (<<0, 1>>), (<<0, -1>>)>>

RECURSIVE moves_in_directions(_, _, _, _, _)
moves_in_directions(b, ps, p, directions, i) ==
    IF i > Len(directions) THEN <<>>
    ELSE get_moves_in_direction(b, ps, p, directions[i])
         \o moves_in_directions(b, ps, p, directions, i + 1)

Bishop_get_available_moves(b, ps, p) ==
    moves_in_directions(b, ps, p, DiagonalDirections, 1)

Rook_get_available_moves(b, ps, p) ==
    moves_in_directions(b, ps, p, OrthogonalDirections, 1)

\* A Queen that moves as a Bishop only.
Queen_moves_on_diagonals(b, ps, p) ==
    moves_in_directions(b, ps, p, DiagonalDirections, 1)

Queen_get_available_moves(b, ps, p) ==
    moves_in_directions(b, ps, p, DiagonalDirections \o OrthogonalDirections, 1)

RECURSIVE king_steps(_, _, _, _, _)
king_steps(b, ps, p, directions, i) ==
    IF i > Len(directions) THEN <<>>
    ELSE King_get_moves_in_direction(b, ps, p, directions[i])
         \o king_steps(b, ps, p, directions, i + 1)

\* A King.get_available_moves with the castling lines at work: an unmoved King
\* on column 4 is also offered column 6 when the squares up to the unmoved rook
\* of its player in the corner are empty.
King_moves_with_castling(b, ps, p) ==
    LET square == find_piece(b, p)
        corner == at(row(square), 7)
        can_castle ==
            /\ col(square) = 4
            /\ ~ps[p].moved
            /\ b[corner] # None
            /\ ps[b[corner]].kind = ROOK
            /\ ps[b[corner]].player = ps[p].player
            /\ ~ps[b[corner]].moved
            /\ are_squares_empty(b, {at(row(square), 5), at(row(square), 6)})
    IN  king_steps(b, ps, p, DiagonalDirections \o OrthogonalDirections, 1)
        \o (IF can_castle THEN <<at(row(square), 6)>> ELSE <<>>)

\* King.get_available_moves: the castling lines (can_castle) are commented out
\* in the source, so the list is the eight single steps.
King_get_available_moves(b, ps, p) ==
    king_steps(b, ps, p, DiagonalDirections \o OrthogonalDirections, 1)

\* Dispatch on the class of the piece.
get_available_moves(b, ps, p) ==
    CASE ps[p].kind = PAWN -> Pawn_get_available_moves(b, ps, p)
      [] ps[p].kind = KNIGHT -> Knight_get_available_moves(b, ps, p)
      [] ps[p].kind = BISHOP -> Bishop_get_available_moves(b, ps, p)
      [] ps[p].kind = ROOK -> Rook_get_available_moves(b, ps, p)
      [] ps[p].kind = QUEEN -> Queen_get_available_moves(b, ps, p)
      [] ps[p].kind = KING -> King_get_available_moves(b, ps, p)

Range(seq) == {seq[i] : i \in 1 .. Len(seq)}

(***************************************************************************)
(* board.py: move_piece and its helpers.  A board state is the record      *)
(* [board, current_player, last_move, pieces]; last_move is NoMove (None   *)
(* in the code) or <<piece, to_square, en_passant>>.                       *)
(***************************************************************************)
NoMove == <<>>

\* An en passant test that compares the column of the from square.
handle_en_passant_from_column(b, lm, from_square, to_square) ==
    IF lm # NoMove
    THEN IF lm[3] /\ row(lm[2]) = row(from_square)
         THEN IF col(lm[2]) = col(from_square)
              THEN set_piece(b, lm[2], None)
              ELSE b
         ELSE b
    ELSE b

handle_en_passant(b, lm, from_square, to_square) ==
    IF lm # NoMove
    THEN IF lm[3] /\ row(lm[2]) = row(from_square)
         THEN IF col(lm[2]) = col(to_square)
              THEN set_piece(b, lm[2], None)
              ELSE b
         ELSE b
    ELSE b

Abs(n) == IF n < 0 THEN -n ELSE n

\* A castling that copies the rook and leaves it on its corner too.
handle_castling_keeps_corner(b, ps, from_square, to_square, piece) ==
    IF ps[piece].kind # KING THEN b
    ELSE IF Abs(col(from_square) - col(to_square)) > 1
         THEN IF col(to_square) = 2
              THEN set_piece(b, at(row(to_square), 3), get_piece(b, at(row(to_square), 0)))
              ELSE set_piece(b, at(row(to_square), 5), get_piece(b, at(row(to_square), 7)))
         ELSE b

handle_castling(b, ps, from_square, to_square, piece) ==
    IF ps[piece].kind # KING THEN b
    ELSE IF Abs(col(from_square) - col(to_square)) > 1
         THEN IF col(to_square) = 2
              THEN LET rook == get_piece(b, at(row(to_square), 0))
                       b1 == set_piece(b, at(row(to_square), 3), rook)
                   IN  set_piece(b1, at(row(to_square), 0), None)
              ELSE LET rook == get_piece(b, at(row(to_square), 7))
                       b1 == set_piece(b, at(row(to_square), 5), rook)
                   IN  set_piece(b1, at(row(to_square), 7), None)
         ELSE b

\* A guard that forgets whose turn it is.
may_move_any_player(st, from_square) == get_piece(st.board, from_square) # None

\* A guard that also refuses every move of a player whose King is attacked.
may_move_out_of_check(st, from_square) ==
    LET moving_piece == get_piece(st.board, from_square)
        attacked(square) ==
            /\ st.board[square] # None
            /\ st.pieces[st.board[square]].kind = KING
            /\ st.pieces[st.board[square]].player = st.current_player
            /\ \E start \in Squares :
                  /\ st.board[start] # None
                  /\ st.pieces[st.board[start]].player # st.current_player
                  /\ square \in Range(get_available_moves(st.board, st.pieces, st.board[start]))
    IN  /\ moving_piece # None
        /\ st.pieces[moving_piece].player = st.current_player
        /\ ~ \E square \in Squares : attacked(square)

\* The guard of move_piece: the from square holds a piece of the player to move.
may_move(st, from_square) ==
    LET moving_piece == get_piece(st.board, from_square)
    IN  moving_piece # None /\ st.pieces[moving_piece].player = st.current_player

\* Is the moving pawn replaced by a new Queen?
promotes(st, from_square, to_square) ==
    st.pieces[get_piece(st.board, from_square)].kind = PAWN
    /\ (row(to_square) = 0 \/ row(to_square) = 7)

\* The en_passant flag move_piece records for a move of moving_piece.
en_passant_flag(ps, moving_piece, from_square, to_square) ==
    IF ps[moving_piece].kind = PAWN
    THEN (row(to_square) = 3 /\ row(from_square) = 1)
         \/ (row(to_square) = 4 /\ row(from_square) = 6)
    ELSE FALSE

move_piece(st, from_square, to_square) ==
    IF may_move(st, from_square)
    THEN LET promoted == promotes(st, from_square, to_square)
             \* Queen(self.current_player): a new instance, appended to pieces
             ps1 == IF promoted
                    THEN Append(st.pieces, Piece(QUEEN, st.current_player))
                    ELSE st.pieces
             moving_piece == IF promoted THEN Len(ps1) ELSE get_piece(st.board, from_square)
             b1 == handle_castling(st.board, ps1, from_square, to_square, moving_piece)
             b2 == IF ps1[moving_piece].kind = PAWN
                   THEN handle_en_passant(b1, st.last_move, from_square, to_square)
                   ELSE b1
             en_passant == en_passant_flag(ps1, moving_piece, from_square, to_square)
             b3 == set_piece(b2, to_square, moving_piece)
             b4 == set_piece(b3, from_square, None)
         IN  [board |-> b4,
              current_player |-> opponent(st.current_player),
              last_move |-> <<moving_piece, to_square, en_passant>>,
              pieces |-> [ps1 EXCEPT ![moving_piece].moved = TRUE]]
    ELSE st

(***************************************************************************)
(* board.py: the queries in_check and get_bot_move_squares.  A call either *)
(* returns a value or raises; NoResult is Python's None.                   *)
(***************************************************************************)
NoResult == <<>>
Returns(value) == [raised |-> "", value |-> value]
Raises(error) == [raised |-> error, value |-> NoResult]

\* The square visited at step i of `for row in range(BOARD_SIZE): for col in
\* range(BOARD_SIZE)`, i = 0 .. 63.
ScanSquare(i) == at(i \div BOARD_SIZE, i % BOARD_SIZE)

\* isinstance(target, King)
is_King(b, ps, square) ==
    get_piece(b, square) # None /\ ps[get_piece(b, square)].kind = KING

\* The inner loop of in_check: the first move of the list that lands on a King.
RECURSIVE first_move_onto_King(_, _, _, _)
first_move_onto_King(b, ps, moves, i) ==
    IF i > Len(moves) THEN NoResult
    ELSE IF is_King(b, ps, moves[i]) THEN moves[i]
    ELSE first_move_onto_King(b, ps, moves, i + 1)

\* An in_check that looks only at the pieces of the player to move.
RECURSIVE in_check_of_mover_from(_, _)
in_check_of_mover_from(st, i) ==
    IF i >= BOARD_SIZE * BOARD_SIZE THEN NoResult
    ELSE LET piece_in_square == st.board[ScanSquare(i)]
         IN  IF piece_in_square = None
                \/ st.pieces[piece_in_square].player # st.current_player
             THEN in_check_of_mover_from(st, i + 1)
             ELSE LET moves == get_available_moves(st.board, st.pieces, piece_in_square)
                      found == first_move_onto_King(st.board, st.pieces, moves, 1)
                  IN  IF found # NoResult THEN found
                      ELSE in_check_of_mover_from(st, i + 1)

in_check_of_mover(st) == Returns(in_check_of_mover_from(st, 0))

\* The outer loops of in_check, from scan step i on.
RECURSIVE in_check_from(_, _)
in_check_from(st, i) ==
    IF i >= BOARD_SIZE * BOARD_SIZE THEN NoResult
    ELSE LET piece_in_square == st.board[ScanSquare(i)]
         IN  IF piece_in_square = None THEN in_check_from(st, i + 1)
             ELSE LET moves == get_available_moves(st.board, st.pieces, piece_in_square)
                      found == first_move_onto_King(st.board, st.pieces, moves, 1)
                  IN  IF found # NoResult THEN found
                      ELSE in_check_from(st, i + 1)

\* Falling off the end of the function returns None.
in_check(st) == Returns(in_check_from(st, 0))

\* points = {Pawn: 10, Knight: 30, Bishop: 30, Rook: 50, Queen: 90, King: 900}
points(kind) ==
    CASE kind = PAWN -> 10
      [] kind = KNIGHT -> 30
      [] kind = BISHOP -> 30
      [] kind = ROOK -> 50
      [] kind = QUEEN -> 90
      [] kind = KING -> 900

\* move_score of get_best_move: 0 unless the destination holds a piece.
move_score(b, ps, move) ==
    IF get_piece(b, move) = None THEN 0 ELSE points(ps[get_piece(b, move)].kind)

\* The loop of get_best_move from the i-th move on.
RECURSIVE best_move_from(_, _, _, _, _, _)
best_move_from(b, ps, moves, i, best_move, highest_score) ==
    IF i > Len(moves) THEN <<best_move, highest_score>>
    ELSE IF move_score(b, ps, moves[i]) > highest_score
         THEN best_move_from(b, ps, moves, i + 1, moves[i], move_score(b, ps, moves[i]))
         ELSE best_move_from(b, ps, moves, i + 1, best_move, highest_score)

\* A get_best_move that takes the first move of the list.
get_best_move_first(b, ps, piece_moves) ==
    <<piece_moves[2][1], move_score(b, ps, piece_moves[2][1])>>

\* piece_moves is the pair (piece, moves); the result the pair (move, score).
get_best_move(b, ps, piece_moves) ==
    best_move_from(b, ps, piece_moves[2], 1, piece_moves[2][1], 0)

\* The first loop of get_bot_move_squares: (piece, moves) for every BLACK piece
\* with a non-empty move list, in scan order.
RECURSIVE all_moves_from_any_player(_, _, _)
all_moves_from_any_player(b, ps, i) ==
    IF i >= BOARD_SIZE * BOARD_SIZE THEN <<>>
    ELSE LET piece_in_square == b[ScanSquare(i)]
         IN  IF piece_in_square = None THEN all_moves_from_any_player(b, ps, i + 1)
             ELSE IF get_available_moves(b, ps, piece_in_square) # <<>>
                  THEN <<(<<piece_in_square, get_available_moves(b, ps, piece_in_square)>>)>>
                       \o all_moves_from_any_player(b, ps, i + 1)
                  ELSE all_moves_from_any_player(b, ps, i + 1)

RECURSIVE all_moves_from(_, _, _)
all_moves_from(b, ps, i) ==
    IF i >= BOARD_SIZE * BOARD_SIZE THEN <<>>
    ELSE LET piece_in_square == b[ScanSquare(i)]
         IN  IF piece_in_square = None THEN all_moves_from(b, ps, i + 1)
             ELSE IF ps[piece_in_square].player = BLACK
                     /\ get_available_moves(b, ps, piece_in_square) # <<>>
                  THEN <<(<<piece_in_square, get_available_moves(b, ps, piece_in_square)>>)>>
                       \o all_moves_from(b, ps, i + 1)
                  ELSE all_moves_from(b, ps, i + 1)

\* The second loop: (piece, (best move, its score)) for every entry of all_moves.
highest_moves(b, ps) ==
    LET all_moves == all_moves_from(b, ps, 0)
    IN  [i \in 1 .. Len(all_moves) |->
            <<all_moves[i][1], get_best_move(b, ps, all_moves[i])>>]

\* A final loop that replaces the move and forgets to replace the from square.
RECURSIVE replace_move_only(_, _, _, _, _, _)
replace_move_only(b, highest, i, best_score, best_move, from_square) ==
    IF i > Len(highest) THEN <<from_square, best_move>>
    ELSE IF highest[i][2][2] > best_score
         THEN replace_move_only(b, highest, i + 1, highest[i][2][2], highest[i][2][1],
                                from_square)
         ELSE replace_move_only(b, highest, i + 1, best_score, best_move, from_square)

\* A final loop that also replaces the candidate by an equal score.
RECURSIVE replace_by_not_lower(_, _, _, _, _, _)
replace_by_not_lower(b, highest, i, best_score, best_move, from_square) ==
    IF i > Len(highest) THEN <<from_square, best_move>>
    ELSE IF highest[i][2][2] >= best_score
         THEN replace_by_not_lower(b, highest, i + 1, highest[i][2][2], highest[i][2][1],
                                   find_piece(b, highest[i][1]))
         ELSE replace_by_not_lower(b, highest, i + 1, best_score, best_move, from_square)

\* The final loop: the candidate is replaced by every strictly higher score.
RECURSIVE replace_by_higher(_, _, _, _, _, _)
replace_by_higher(b, highest, i, best_score, best_move, from_square) ==
    IF i > Len(highest) THEN <<from_square, best_move>>
    ELSE IF highest[i][2][2] > best_score
         THEN replace_by_higher(b, highest, i + 1, highest[i][2][2], highest[i][2][1],
                                find_piece(b, highest[i][1]))
         ELSE replace_by_higher(b, highest, i + 1, best_score, best_move, from_square)

\* get_bot_move_squares once random.choice has taken the entry random_piece_move.
bot_move_after_choice(b, highest, random_piece_move) ==
    replace_by_higher(b, highest, 1, random_piece_move[2][2], random_piece_move[2][1],
                      find_piece(b, random_piece_move[1]))

\* A get_bot_move_squares that returns None when there is nothing to choose from.
get_bot_move_squares_or_None(st, draw) ==
    LET highest == highest_moves(st.board, st.pieces)
    IN  IF highest = <<>> THEN Returns(NoResult)
        ELSE Returns(bot_move_after_choice(st.board, highest, highest[draw]))

\* The entries random.choice may take from highest_moves, by index; on an empty
\* list there is nothing to take (index 0) and random.choice raises IndexError.
random_choice(st) ==
    LET highest == highest_moves(st.board, st.pieces)
    IN  IF highest = <<>> THEN {0} ELSE 1 .. Len(highest)

\* get_bot_move_squares when random.choice takes the entry at index draw.
get_bot_move_squares(st, draw) ==
    LET highest == highest_moves(st.board, st.pieces)
    IN  IF highest = <<>> THEN Raises("IndexError")
        ELSE Returns(bot_move_after_choice(st.board, highest, highest[draw]))

(***************************************************************************)
(* Arrangements: the boards a caller builds from Board.empty() with        *)
(* set_piece, as the tests do.  Each entry is <<row, col, class, player>>; *)
(* the pieces are constructed and placed in the order listed.              *)
(***************************************************************************)
Arrangements ==
    [castling |->
        <<(<<0, 4, KING, WHITE>>), (<<0, 7, ROOK, WHITE>>), (<<6, 0, PAWN, WHITE>>),
          (<<7, 4, KING, BLACK>>), (<<7, 0, ROOK, BLACK>>), (<<1, 7, PAWN, BLACK>>)>>,
     en_passant |->
        <<(<<1, 4, PAWN, WHITE>>), (<<3, 3, PAWN, BLACK>>), (<<3, 5, PAWN, BLACK>>),
          (<<4, 1, PAWN, WHITE>>), (<<6, 2, PAWN, BLACK>>)>>,
     promotion |->
        <<(<<6, 0, PAWN, WHITE>>), (<<7, 1, KNIGHT, BLACK>>),
          (<<1, 7, PAWN, BLACK>>), (<<0, 6, KNIGHT, WHITE>>)>>,
     back_rank_pawns |->
        <<(<<0, 4, PAWN, WHITE>>), (<<1, 1, PAWN, WHITE>>),
          (<<7, 3, PAWN, BLACK>>), (<<6, 6, PAWN, BLACK>>),
          (<<7, 0, PAWN, WHITE>>), (<<0, 7, PAWN, BLACK>>)>>,
     knights_and_kings |->
        <<(<<0, 4, KING, WHITE>>), (<<3, 4, KNIGHT, WHITE>>),
          (<<7, 4, KING, BLACK>>), (<<1, 2, KNIGHT, BLACK>>)>>,
     bot_choice |->
        <<(<<5, 6, KNIGHT, BLACK>>), (<<3, 5, PAWN, WHITE>>), (<<5, 1, PAWN, BLACK>>),
          (<<4, 2, KNIGHT, WHITE>>), (<<6, 4, PAWN, BLACK>>)>>,
     rook_and_pawn |->
        <<(<<4, 4, ROOK, WHITE>>), (<<5, 4, PAWN, BLACK>>)>>,
     kings_in_corners |->
        <<(<<0, 0, KING, WHITE>>), (<<7, 7, KING, BLACK>>)>>,
     sliders |->
        <<(<<4, 4, QUEEN, BLACK>>), (<<4, 0, ROOK, BLACK>>), (<<6, 6, BISHOP, BLACK>>),
          (<<1, 4, PAWN, WHITE>>), (<<2, 2, PAWN, WHITE>>)>>]

ArrangementNames == DOMAIN Arrangements

ArrangedPieces(entries) == [i \in 1 .. Len(entries) |-> Piece(entries[i][3], entries[i][4])]

RECURSIVE ArrangedBoard(_, _)
ArrangedBoard(entries, n) ==
    IF n = 0 THEN _create_empty_board
    ELSE set_piece(ArrangedBoard(entries, n - 1), at(entries[n][1], entries[n][2]), n)

(***************************************************************************)
(* The state machine.                                                      *)
(*   origin  how the board was built: a constructor or an arrangement      *)
(*   hist    the last call: its name; for move_piece the piece that stood  *)
(*           on the from square (mover, None when it was empty), whether   *)
(*           the destination was one of the mover's generated moves, the   *)
(*           two squares (kept when the mover belonged to the player to    *)
(*           move), the board state before the call (pre) and the squares  *)
(*           and mover of the successful move before it (prior)            *)
(*   nmoves  the number of successful move_piece calls so far              *)
(*   returned  what the last call returned or raised                       *)
(***************************************************************************)
St == [board |-> board, current_player |-> current_player,
       last_move |-> last_move, pieces |-> pieces]

\* Calls explored: the bound on the successful moves made before a call, from an
\* arrangement of pawns, from an arrangement with kings, knights or sliding
\* pieces (whose moves branch widely), and from the full starting position.
MaxMoves == 3
MaxWideMoves == 2
MaxStartMoves == 1

WideArrangements ==
    {"castling", "sliders", "rook_and_pawn", "promotion", "bot_choice", "knights_and_kings",
     "kings_in_corners"}

MoveBound ==
    IF origin = "at_starting_position" THEN MaxStartMoves
    ELSE IF origin \in WideArrangements THEN MaxWideMoves
    ELSE MaxMoves

NoSquare == at(0, 0)
NoPrior == <<>>

Constructed(name, grid, ps) ==
    /\ board = grid
    /\ pieces = ps
    \* Board.__init__ ignores its player argument
    /\ current_player = WHITE
    /\ last_move = NoMove
    /\ origin = name
    /\ nmoves = 0
    /\ returned = Returns(NoResult)
    /\ hist = [op |-> name, mover |-> None, generated |-> FALSE,
               from |-> NoSquare, to |-> NoSquare, prior |-> NoPrior,
               pre |-> [board |-> grid, current_player |-> WHITE,
                        last_move |-> NoMove, pieces |-> ps]]

Init ==
    \/ Constructed("empty", _create_empty_board, <<>>)
    \/ Constructed("at_starting_position", _create_starting_board, StartingPieces)

\* A caller arranges a position on the empty board with set_piece.
Arrange(name) ==
    /\ hist.op = "empty"
    /\ board' = ArrangedBoard(Arrangements[name], Len(Arrangements[name]))
    /\ pieces' = ArrangedPieces(Arrangements[name])
    /\ origin' = name
    /\ hist' = [op |-> "set_piece", mover |-> None, generated |-> FALSE,
                from |-> NoSquare, to |-> NoSquare, prior |-> NoPrior, pre |-> St]
    /\ returned' = Returns(NoResult)
    /\ UNCHANGED <<current_player, last_move, nmoves>>

\* The queries: calls that return a value and assign nothing.
Queries == {"in_check", "get_bot_move_squares", "get_available_moves"}

\* The play is followed as long as every call took its destination from the
\* generated moves of a piece of the player to move; the state after any other
\* call is examined, not played on.  A query changes nothing, so the play after
\* it is the play from the state it was made in.
InPlay ==
    /\ hist.op \notin Queries
    \* a move_to that raised before it reached move_piece
    /\ hist.op # "move_to"
    /\ hist.op = "move_piece" => hist.generated

\* What the caller sees before the call: the from square holds a piece of the
\* player to move (a "successful" call in the specification's words).
HoldsOwnPiece(st, from_square) ==
    /\ st.board[from_square] # None
    /\ st.pieces[st.board[from_square]].player = st.current_player

Generated(st, from_square, to_square) ==
    to_square \in Range(get_available_moves(st.board, st.pieces, get_piece(st.board, from_square)))

Call(from_square, to_square) ==
    LET after == move_piece(St, from_square, to_square)
        own == HoldsOwnPiece(St, from_square)
    IN  /\ board' = after.board
        /\ current_player' = after.current_player
        /\ last_move' = after.last_move
        /\ pieces' = after.pieces
        /\ nmoves' = IF own THEN nmoves + 1 ELSE nmoves
        /\ hist' = [op |-> "move_piece",
                    mover |-> board[from_square],
                    generated |-> own /\ Generated(St, from_square, to_square),
                    from |-> IF own THEN from_square ELSE NoSquare,
                    to |-> IF own THEN to_square ELSE NoSquare,
                    prior |-> IF hist.op = "move_piece"
                              THEN <<hist.from, hist.to, hist.mover>>
                              ELSE NoPrior,
                    pre |-> St]
        /\ returned' = Returns(NoResult)
        /\ UNCHANGED origin

\* board.move_piece(from_square, to_square).
MovePiece(from_square, to_square) == Call(from_square, to_square)

\* piece.move_to(board, new_square): find_piece, whose exception ends the call
\* for a piece that stands on no square, then move_piece.
MoveTo(p, new_square) ==
    IF find_piece(board, p) = NotOnBoard
    THEN /\ returned' = Raises("Exception")
         /\ hist' = [hist EXCEPT !.op = "move_to", !.mover = p, !.pre = St]
         /\ UNCHANGED <<board, current_player, last_move, pieces, origin, nmoves>>
    ELSE Call(find_piece(board, p), new_square)

\* piece.get_available_moves(board): every class locates the piece with
\* find_piece before anything else, whose exception ends the call for a piece
\* that stands on no square.
GetAvailableMoves(p) ==
    /\ InPlay
    /\ returned' = IF find_piece(board, p) = NotOnBoard
                   THEN Raises("Exception")
                   ELSE Returns(get_available_moves(board, pieces, p))
    /\ hist' = [hist EXCEPT !.op = "get_available_moves", !.mover = p, !.pre = St]
    /\ UNCHANGED <<board, current_player, last_move, pieces, origin, nmoves>>

\* board.in_check(), at any point of the play within its bound.
InCheck ==
    /\ InPlay
    /\ returned' = in_check(St)
    /\ hist' = [hist EXCEPT !.op = "in_check", !.pre = St]
    /\ UNCHANGED <<board, current_player, last_move, pieces, origin, nmoves>>

\* board.get_bot_move_squares(), at any point of the play within its bound,
\* with every outcome of the draw.
GetBotMoveSquares ==
    /\ InPlay
    /\ \E draw \in random_choice(St) :
          /\ returned' = get_bot_move_squares(St, draw)
          \* the piece of the entry drawn
          /\ hist' = [hist EXCEPT !.op = "get_bot_move_squares",
                                  !.mover = IF draw = 0 THEN None
                                            ELSE highest_moves(board, pieces)[draw][1],
                                  !.pre = St]
    /\ UNCHANGED <<board, current_player, last_move, pieces, origin, nmoves>>

\* The pieces standing on the board.
OnBoard(b) == {b[s] : s \in Squares} \ {None}

\* The pieces constructed and no longer on the board.
OffBoard == (1 .. Len(pieces)) \ OnBoard(board)

\* The destinations tried from a square.  From an empty square (the call is
\* rejected before the destination is read): the square itself and the four
\* corners.  From an occupied square, of either player: every square of the
\* board on an arranged board not yet played on; afterwards, and on the crowded
\* starting position from the first call, the square itself, the eight squares
\* around it and the four squares two away on its row and its column, which
\* covers the null move, every single step forward, sideways, backward or
\* diagonal, the double step and the two-column king move; late in the play
\* (after the first move on the starting position, the second on an
\* arrangement of widely branching pieces, the third on the others), the
\* square itself.
Corners == {at(0, 0), at(0, 7), at(7, 0), at(7, 7)}

Near(square) ==
    {s \in Squares :
        \/ Abs(row(s) - row(square)) <= 1 /\ Abs(col(s) - col(square)) <= 1
        \/ row(s) = row(square) /\ Abs(col(s) - col(square)) = 2
        \/ col(s) = col(square) /\ Abs(row(s) - row(square)) = 2}

\* The number of moves after which only the null move is tried besides the
\* generated moves.
Late ==
    nmoves >= (IF origin = "at_starting_position" THEN 1
               ELSE IF origin \in WideArrangements THEN 2
               ELSE 3)

Destinations(from_square) ==
    IF board[from_square] = None THEN Corners \cup {from_square}
    ELSE IF Late THEN {from_square}
    ELSE IF nmoves = 0 /\ origin # "at_starting_position" THEN Squares
    ELSE Near(from_square)

\* The from squares tried: every square of a board not yet played on;
\* afterwards every square that holds a piece of the player to move, the
\* square of the piece that has just moved (the other player's) and the square
\* it left (empty).
FromSquares ==
    IF nmoves = 0 THEN Squares
    ELSE {s \in Squares : HoldsOwnPiece(St, s)} \cup {hist.from, hist.to}

\* move_piece is called with any two squares; move_to, as the callers of the
\* engine use it, with a destination taken from the piece's get_available_moves.
Next ==
    \/ \E name \in ArrangementNames : Arrange(name)
    \/ /\ InPlay
       /\ nmoves < MoveBound
       /\ \E from_square \in FromSquares :
             \E to_square \in Destinations(from_square) : MovePiece(from_square, to_square)
    \/ /\ InPlay
       /\ nmoves < MoveBound
       /\ \E p \in OnBoard(board) :
             \E new_square \in Range(get_available_moves(board, pieces, p)) : MoveTo(p, new_square)
    \* the calls on a piece that was captured or promoted away: the caller has no
    \* list of moves to draw the destination from
    \/ /\ InPlay
       /\ nmoves < MoveBound
       /\ \E p \in OffBoard : \E new_square \in Corners : MoveTo(p, new_square)
    \/ nmoves < MoveBound /\ \E p \in OffBoard : GetAvailableMoves(p)
    \/ nmoves < MoveBound /\ InCheck
    \/ nmoves < MoveBound /\ GetBotMoveSquares

Spec == Init /\ [][Next]_vars

(***************************************************************************)
(* Vocabulary of the properties: the last call and the state before it.    *)
(***************************************************************************)
Pre == hist.pre
Called == hist.op = "move_piece"

\* The last call was a successful move_piece: its from square held a piece of
\* the player to move.
Successful ==
    /\ Called
    /\ hist.mover # None
    /\ Pre.pieces[hist.mover].player = Pre.current_player

\* The last call was a move_piece whose from square was empty or held a piece
\* of the player not to move.
Refused ==
    /\ Called
    /\ (hist.mover = None \/ Pre.pieces[hist.mover].player # Pre.current_player)

MoverKind == Pre.pieces[hist.mover].kind

(***************************************************************************)
(* C1: a move_piece call whose from square is empty or holds a piece of    *)
(* the player not to move leaves the grid, current_player, last_move and   *)
(* every piece's moved flag as they were.                                  *)
(***************************************************************************)
C1_RefusedCallChangesNothing ==
    Refused =>
        /\ board = Pre.board
        /\ current_player = Pre.current_player
        /\ last_move = Pre.last_move
        /\ pieces = Pre.pieces

\* A call on the square of an opponent's piece, made after a first move.
C1_Witness ==
    /\ Refused
    /\ hist.mover # None
    /\ nmoves >= 1
    /\ Pre.last_move # NoMove

(***************************************************************************)
(* C2: current_player is WHITE on a newly constructed board, flips to the  *)
(* opponent on every successful move_piece call and changes in no other    *)
(* operation; so it is WHITE iff the number of successful moves is even,   *)
(* and two successive successful moves are made by different players.      *)
(***************************************************************************)
C2_TurnsAlternate ==
    /\ hist.op \in {"empty", "at_starting_position"} => current_player = WHITE
    /\ Successful => current_player \in Player \ {Pre.current_player}
    /\ ~Successful => current_player = Pre.current_player
    /\ current_player = (IF nmoves % 2 = 0 THEN WHITE ELSE BLACK)
    /\ (Successful /\ Pre.last_move # NoMove) =>
           Pre.pieces[Pre.last_move[1]].player # Pre.pieces[hist.mover].player

C2_Witness ==
    /\ Successful
    /\ nmoves = 3
    /\ current_player = BLACK
    /\ Pre.last_move # NoMove

(***************************************************************************)
(* C3: after every successful move_piece(from, to), for every pair of      *)
(* squares, the to square holds the moving piece (on promotion the new     *)
(* Queen) with its moved flag true, and the from square is empty.          *)
(***************************************************************************)
IsPromotion == MoverKind = PAWN /\ row(hist.to) \in {0, 7}

\* The occupant of the to square is a Queen created by the call, of the
\* mover's player.
NewQueenOnDestination ==
    /\ board[hist.to] # None
    /\ board[hist.to] \notin DOMAIN Pre.pieces
    /\ pieces[board[hist.to]].kind = QUEEN
    /\ pieces[board[hist.to]].player = Pre.pieces[hist.mover].player

PlacedOnDestination ==
    /\ board[hist.from] = None
    /\ board[hist.to] # None
    /\ pieces[board[hist.to]].moved
    /\ IF IsPromotion THEN NewQueenOnDestination ELSE board[hist.to] = hist.mover

C3_MovedPieceStandsOnDestination == Successful => PlacedOnDestination

\* The same statement for two different squares.
C3_ForDistinctSquares == (Successful /\ hist.from # hist.to) => PlacedOnDestination

(***************************************************************************)
(* C4: after every successful move_piece(from, to), last_move is (piece    *)
(* now standing on to, to, flag), where flag is true iff the moved piece   *)
(* is a Pawn moved from row 1 to row 3 or from row 6 to row 4; from the    *)
(* starting position, move_piece((1,4),(3,4)) leaves the white pawn on     *)
(* (3,4), (1,4) empty, BLACK to move and last_move flagged.                *)
(***************************************************************************)
DoubleStepRows(from_square, to_square) ==
    \/ row(from_square) = 1 /\ row(to_square) = 3
    \/ row(from_square) = 6 /\ row(to_square) = 4

LastMoveAsClaimed ==
    /\ last_move =
          <<board[hist.to], hist.to, MoverKind = PAWN /\ DoubleStepRows(hist.from, hist.to)>>
    /\ (origin = "at_starting_position" /\ nmoves = 1
        /\ hist.from = at(1, 4) /\ hist.to = at(3, 4)) =>
           /\ board[at(3, 4)] = _create_starting_board[at(1, 4)]
           /\ pieces[board[at(3, 4)]] = [kind |-> PAWN, player |-> WHITE, moved |-> TRUE]
           /\ board[at(1, 4)] = None
           /\ current_player = BLACK
           /\ last_move[3]

C4_LastMoveRecordsTheMove == Successful => LastMoveAsClaimed

\* The same statement for two different squares.
C4_ForDistinctSquares == (Successful /\ hist.from # hist.to) => LastMoveAsClaimed

(***************************************************************************)
(* C5: en passant window.  If a White pawn double-steps (1,c)->(3,c) and   *)
(* the next successful move is a Black pawn from (3,c-1) or (3,c+1) to     *)
(* (2,c), that call removes the White pawn from (3,c); symmetrically for a *)
(* Black pawn (6,c)->(4,c) and a White pawn from (4,c-1) or (4,c+1) to     *)
(* (5,c).  If the most recent successful move was not a pawn move from row *)
(* 1 to 3 or from row 6 to 4, a pawn move changes no square other than its *)
(* from and to squares.                                                    *)
(***************************************************************************)
\* The successful move before the last call was a pawn's, from row 1 to row 3
\* or from row 6 to row 4.
PriorDoubleStep ==
    /\ hist.prior # NoPrior
    /\ Pre.pieces[hist.prior[3]].kind = PAWN
    /\ DoubleStepRows(hist.prior[1], hist.prior[2])

\* The last call moved a pawn of player mover_player diagonally from beside
\* the pawn of the other player that had just double-stepped from from_row to
\* to_row in column c, onto the square that pawn skipped.
CapturesEnPassant(mover_player, from_row, to_row, c) ==
    /\ Successful
    /\ MoverKind = PAWN
    /\ Pre.pieces[hist.mover].player = mover_player
    /\ hist.prior # NoPrior
    /\ Pre.pieces[hist.prior[3]].kind = PAWN
    /\ Pre.pieces[hist.prior[3]].player = opponent(mover_player)
    /\ hist.prior[1] = at(from_row, c)
    /\ hist.prior[2] = at(to_row, c)
    /\ hist.from \in {at(to_row, c - 1), at(to_row, c + 1)}
    /\ hist.to = at((from_row + to_row) \div 2, c)

OnlyFromAndToChanged ==
    \A s \in Squares \ {hist.from, hist.to} : board[s] = Pre.board[s]

C5_EnPassantWindow ==
    /\ \A c \in 0 .. 7 :
          /\ CapturesEnPassant(BLACK, 1, 3, c) => board[at(3, c)] = None
          /\ CapturesEnPassant(WHITE, 6, 4, c) => board[at(4, c)] = None
    /\ (Successful /\ MoverKind = PAWN /\ ~PriorDoubleStep) => OnlyFromAndToChanged

\* A Black pawn has just captured en passant the White pawn that double-stepped.
C5_Witness ==
    /\ CapturesEnPassant(BLACK, 1, 3, 4)
    /\ Pre.board[at(3, 4)] # None
    /\ board[at(3, 4)] = None
    /\ board[at(2, 4)] = hist.mover

\* The symmetric capture: a White pawn takes the Black pawn that double-stepped.
C5_WitnessSymmetric ==
    /\ CapturesEnPassant(WHITE, 6, 4, 2)
    /\ Pre.board[at(4, 2)] # None
    /\ board[at(4, 2)] = None
    /\ board[at(5, 2)] = hist.mover

(***************************************************************************)
(* C6: castling is offered by move generation.  For a King that has not    *)
(* moved on (r,4) and a Rook of the same player that has not moved on the  *)
(* corner (r,0) [resp. (r,7)], if the squares strictly between them are    *)
(* empty, the King's get_available_moves contains (r,2) [resp. (r,6)].     *)
(***************************************************************************)
UnmovedRookOn(square, player) ==
    /\ board[square] # None
    /\ pieces[board[square]].kind = ROOK
    /\ pieces[board[square]].player = player
    /\ ~pieces[board[square]].moved

CanCastle(k, r, rook_col, between, king_to) ==
    /\ pieces[k].kind = KING
    /\ ~pieces[k].moved
    /\ board[at(r, 4)] = k
    /\ UnmovedRookOn(at(r, rook_col), pieces[k].player)
    /\ \A c \in between : board[at(r, c)] = None

C6_CastlingIsOffered ==
    \A k \in OnBoard(board) : \A r \in 0 .. 7 :
        /\ CanCastle(k, r, 0, {1, 2, 3}, 2) =>
               at(r, 2) \in Range(get_available_moves(board, pieces, k))
        /\ CanCastle(k, r, 7, {5, 6}, 6) =>
               at(r, 6) \in Range(get_available_moves(board, pieces, k))

(***************************************************************************)
(* C7: castling execution.  A successful move_piece of a King from (r,4)   *)
(* to (r,2) with a Rook on (r,0) [resp. to (r,6) with a Rook on (r,7)]     *)
(* leaves the King on its destination, the same Rook on (r,3) [resp.       *)
(* (r,5)], and (r,4) and the Rook's corner empty.  A King move of at most  *)
(* one column changes no square other than its from and to squares.        *)
(***************************************************************************)
KingCastles(r, king_to, corner) ==
    /\ Successful
    /\ MoverKind = KING
    /\ hist.from = at(r, 4)
    /\ hist.to = at(r, king_to)
    /\ Pre.board[at(r, corner)] # None
    /\ Pre.pieces[Pre.board[at(r, corner)]].kind = ROOK

Castled(r, king_to, corner, rook_to) ==
    /\ board[at(r, king_to)] = hist.mover
    /\ board[at(r, rook_to)] = Pre.board[at(r, corner)]
    /\ board[at(r, 4)] = None
    /\ board[at(r, corner)] = None

C7_CastlingRelocatesRook ==
    /\ \A r \in 0 .. 7 :
          /\ KingCastles(r, 2, 0) => Castled(r, 2, 0, 3)
          /\ KingCastles(r, 6, 7) => Castled(r, 6, 7, 5)
    /\ (Successful /\ MoverKind = KING /\ Abs(col(hist.from) - col(hist.to)) <= 1) =>
           OnlyFromAndToChanged

\* White has castled on the king's side; every square of the row is as claimed.
C7_Witness ==
    /\ KingCastles(0, 6, 7)
    /\ Castled(0, 6, 7, 5)
    /\ pieces[board[at(0, 5)]].kind = ROOK

\* Black has castled on the queen's side.
C7_WitnessQueenSide ==
    /\ KingCastles(7, 2, 0)
    /\ Castled(7, 2, 0, 3)

(***************************************************************************)
(* C8: promotion.  Whenever a successful move_piece moves a Pawn to a      *)
(* square of row 0 or 7, the destination afterwards holds a newly created  *)
(* Queen of the Pawn's player, the origin is empty and the Pawn stands on  *)
(* no square; a Pawn moved to a row in 1..6 is placed as the same Pawn.    *)
(***************************************************************************)
PromotedAsClaimed ==
    IF row(hist.to) \in {0, 7}
    THEN /\ NewQueenOnDestination
         /\ board[hist.from] = None
         /\ find_piece(board, hist.mover) = NotOnBoard
    ELSE /\ board[hist.to] = hist.mover
         /\ pieces[hist.mover].kind = PAWN

C8_PromotionToQueen == (Successful /\ MoverKind = PAWN) => PromotedAsClaimed

\* The same statement for two different squares.
C8_ForDistinctSquares ==
    (Successful /\ MoverKind = PAWN /\ hist.from # hist.to) => PromotedAsClaimed

(***************************************************************************)
(* C9: a Pawn whose moved flag a successful move has set has, in every     *)
(* later state and on whatever square it stands, no square two rows ahead  *)
(* of it among its get_available_moves.                                    *)
(***************************************************************************)
TwoAhead(p) ==
    LET square == find_piece(board, p)
    IN  at(row(square) + (IF pieces[p].player = WHITE THEN 2 ELSE -2), col(square))

C9_MovedPawnHasNoDoubleStep ==
    \A p \in OnBoard(board) :
        (pieces[p].kind = PAWN /\ pieces[p].moved) =>
            TwoAhead(p) \notin Range(get_available_moves(board, pieces, p))

\* The same statement for a moved pawn that stands off its player's start rank.
C9_OffTheStartRank ==
    \A p \in OnBoard(board) :
        (pieces[p].kind = PAWN /\ pieces[p].moved
         /\ row(find_piece(board, p)) # (IF pieces[p].player = WHITE THEN 1 ELSE 6)) =>
            TwoAhead(p) \notin Range(get_available_moves(board, pieces, p))

(***************************************************************************)
(* C10: sliding rays.  For a Rook (4 orthogonal directions), a Bishop (4   *)
(* diagonal directions) and a Queen (all 8), in each direction the         *)
(* generated destinations are exactly the consecutive empty squares from   *)
(* the piece up to the first occupied square or the edge, plus that first  *)
(* occupied square iff it holds a piece of the opposing player.  A White   *)
(* Rook on (4,4) with a Black Pawn on (5,4) gets (5,4), not (6,4) or       *)
(* (7,4), and gets (3,4), (2,4), (1,4), (0,4).                             *)
(***************************************************************************)
SlideDirections(kind) ==
    CASE kind = ROOK -> {<<1, 0>>, <<-1, 0>>, <<0, 1>>, <<0, -1>>}
      [] kind = BISHOP -> {<<1, 1>>, <<-1, -1>>, <<-1, 1>>, <<1, -1>>}
      [] kind = QUEEN -> {<<1, 0>>, <<-1, 0>>, <<0, 1>>, <<0, -1>>,
                          <<1, 1>>, <<-1, -1>>, <<-1, 1>>, <<1, -1>>}

Along(square, d, k) == at(row(square) + k * d[1], col(square) + k * d[2])

\* The squares the claim describes for a piece of player standing on start, in
\* direction d: those at a distance k with every square before them empty, that
\* are empty themselves or hold a piece of the other player.
RayAsClaimed(start, player, d) ==
    {Along(start, d, k) : k \in
        {k \in 1 .. 7 :
            /\ is_on_board(Along(start, d, k))
            /\ \A j \in 1 .. k - 1 : board[Along(start, d, j)] = None
            /\ \/ board[Along(start, d, k)] = None
               \/ pieces[board[Along(start, d, k)]].player # player}}

RookAndPawnExample ==
    (origin = "rook_and_pawn" /\ nmoves = 0) =>
        LET moves == Range(get_available_moves(board, pieces, board[at(4, 4)]))
        IN  /\ at(5, 4) \in moves
            /\ at(6, 4) \notin moves
            /\ at(7, 4) \notin moves
            /\ {at(3, 4), at(2, 4), at(1, 4), at(0, 4)} \subseteq moves

C10_SlidingRays ==
    /\ \A start \in Squares :
          (board[start] # None /\ pieces[board[start]].kind \in {ROOK, BISHOP, QUEEN}) =>
              /\ \A d \in SlideDirections(pieces[board[start]].kind) :
                    Range(get_moves_in_direction(board, pieces, board[start], d))
                        = RayAsClaimed(start, pieces[board[start]].player, d)
              /\ Range(get_available_moves(board, pieces, board[start]))
                    = UNION {RayAsClaimed(start, pieces[board[start]].player, d) :
                                d \in SlideDirections(pieces[board[start]].kind)}
    /\ RookAndPawnExample

\* After a move, a Queen has one ray that ends on an opposing piece two or more
\* squares away and another that stops short of a friendly piece.
C10_Witness ==
    /\ nmoves >= 1
    /\ \E p \in OnBoard(board) :
          /\ pieces[p].kind = QUEEN
          /\ \E d \in SlideDirections(QUEEN) :
                LET ray_squares == get_moves_in_direction(board, pieces, p, d)
                IN  /\ Len(ray_squares) >= 2
                    /\ board[ray_squares[Len(ray_squares)]] # None
          /\ \E d \in SlideDirections(QUEEN) :
                \E k \in 1 .. 7 :
                    /\ is_on_board(Along(find_piece(board, p), d, k))
                    /\ board[Along(find_piece(board, p), d, k)] # None
                    /\ pieces[board[Along(find_piece(board, p), d, k)]].player = pieces[p].player
                    /\ Along(find_piece(board, p), d, k)
                          \notin Range(get_moves_in_direction(board, pieces, p, d))
                    /\ \A j \in 1 .. k - 1 : board[Along(find_piece(board, p), d, j)] = None

(***************************************************************************)
(* C11: for every piece on every board, every square returned by           *)
(* get_available_moves, and by get_moves_in_direction for every direction, *)
(* has 0 <= row <= 7 and 0 <= col <= 7, differs from the piece's own       *)
(* square and does not hold a piece of the same player.                    *)
(***************************************************************************)
\* The directions tried: the null vector, the eight unit steps and the eight
\* knight jumps.
Directions ==
    {d \in (-2 .. 2) \X (-2 .. 2) :
        \/ Abs(d[1]) <= 1 /\ Abs(d[2]) <= 1
        \/ Abs(d[1]) + Abs(d[2]) = 3}

LegalDestination(square, start, player) ==
    /\ 0 <= row(square) /\ row(square) <= 7
    /\ 0 <= col(square) /\ col(square) <= 7
    /\ square # start
    /\ board[square] # None => pieces[board[square]].player # player

\* get_moves_in_direction of the piece standing on start, once find_piece has
\* returned start: the single step of Knight and King, the ray of Piece for the
\* other classes.
MovesInDirectionFrom(start, d) ==
    IF pieces[board[start]].kind \in {KNIGHT, KING}
    THEN step_from(board, pieces, start, d)
    ELSE ray(board, pieces, start, d, 1)

C11_DestinationsOnBoardNotOwn ==
    \A start \in Squares :
        (board[start] # None /\ find_piece(board, board[start]) = start) =>
            /\ \A square \in Range(get_available_moves(board, pieces, board[start])) :
                  LegalDestination(square, start, pieces[board[start]].player)
            /\ \A d \in Directions :
                  \A square \in Range(MovesInDirectionFrom(start, d)) :
                      LegalDestination(square, start, pieces[board[start]].player)

\* The starting position: the knight on (0,1) is offered (2,0) and (2,2) and not
\* (1,3), where a pawn of its own player stands; the rook in the corner, hemmed
\* in by its own pieces and the edge, is offered nothing.
C11_Witness ==
    /\ origin = "at_starting_position"
    /\ nmoves = 0
    /\ Range(get_available_moves(board, pieces, board[at(0, 1)])) = {at(2, 0), at(2, 2)}
    /\ board[at(1, 3)] # None
    /\ get_available_moves(board, pieces, board[at(0, 0)]) = <<>>

(***************************************************************************)
(* C12: pawn forward moves (forward is row + 1 for WHITE, row - 1 for      *)
(* BLACK).  get_available_moves contains the square one step forward iff   *)
(* it is on the board and empty; for a pawn with moved = false it contains *)
(* the square two steps forward iff the pawn stands on its player's start  *)
(* rank (row 1 WHITE, row 6 BLACK) and both squares are empty; a pawn      *)
(* whose forward square is occupied, or which stands on the last row in    *)
(* its direction, has no forward move, and no move at all when no diagonal *)
(* capture exists.                                                         *)
(***************************************************************************)
Forward(player) == IF player = WHITE THEN 1 ELSE -1

PawnSquares == {square \in Squares : board[square] # None /\ pieces[board[square]].kind = PAWN}

PlayerOn(square) == pieces[board[square]].player

Ahead(start, k) == at(row(start) + k * Forward(PlayerOn(start)), col(start))

Diagonals(start) ==
    {at(row(start) + Forward(PlayerOn(start)), col(start) + 1),
     at(row(start) + Forward(PlayerOn(start)), col(start) - 1)}

EmptyOnBoard(square) == is_on_board(square) /\ board[square] = None

OnStartRank(start) ==
    \/ PlayerOn(start) = WHITE /\ row(start) = 1
    \/ PlayerOn(start) = BLACK /\ row(start) = 6

OnLastRow(start) ==
    \/ PlayerOn(start) = WHITE /\ row(start) = 7
    \/ PlayerOn(start) = BLACK /\ row(start) = 0

HoldsOpponentOf(square, start) ==
    /\ is_on_board(square)
    /\ board[square] # None
    /\ PlayerOn(square) # PlayerOn(start)

PawnMoves(start) == Range(get_available_moves(board, pieces, board[start]))

C12_PawnForwardMoves ==
    \A start \in PawnSquares :
        /\ Ahead(start, 1) \in PawnMoves(start) <=> EmptyOnBoard(Ahead(start, 1))
        /\ ~pieces[board[start]].moved =>
              (Ahead(start, 2) \in PawnMoves(start)
                  <=> /\ OnStartRank(start)
                      /\ EmptyOnBoard(Ahead(start, 1))
                      /\ EmptyOnBoard(Ahead(start, 2)))
        /\ (OnLastRow(start) \/ ~EmptyOnBoard(Ahead(start, 1))) =>
              /\ \A square \in PawnMoves(start) : col(square) # col(start)
              /\ (\A d \in Diagonals(start) : ~HoldsOpponentOf(d, start)) =>
                    get_available_moves(board, pieces, board[start]) = <<>>

\* The arranged pawns after one call that put a white pawn right in front of the
\* black pawn on its start rank: an unmoved pawn on its start rank with both
\* steps, an unmoved pawn off it with one step, a blocked pawn and a pawn on
\* its last row with no move at all.
C12_Witness ==
    /\ origin = "back_rank_pawns"
    /\ nmoves = 1
    /\ \E start \in PawnSquares :
          /\ ~pieces[board[start]].moved /\ OnStartRank(start)
          /\ get_available_moves(board, pieces, board[start]) = <<Ahead(start, 1), Ahead(start, 2)>>
    /\ \E start \in PawnSquares :
          /\ ~pieces[board[start]].moved /\ ~OnStartRank(start)
          /\ get_available_moves(board, pieces, board[start]) = <<Ahead(start, 1)>>
    /\ \E start \in PawnSquares :
          /\ ~OnLastRow(start) /\ is_on_board(Ahead(start, 1)) /\ board[Ahead(start, 1)] # None
          /\ get_available_moves(board, pieces, board[start]) = <<>>
    /\ \E start \in PawnSquares :
          /\ OnLastRow(start)
          /\ get_available_moves(board, pieces, board[start]) = <<>>

(***************************************************************************)
(* C13: pawn diagonals.  get_available_moves of a Pawn contains a          *)
(* forward-diagonal square iff that square is on the board and holds a     *)
(* piece of the opposing player; an empty diagonal square, the square      *)
(* skipped by an enemy pawn that has just double-stepped included, and a   *)
(* diagonal square holding a friendly piece are never returned.            *)
(***************************************************************************)
\* The last move was a double step of a pawn that now stands beside the pawn on
\* start, and the square it skipped is a forward diagonal of start.
SkippedSquareBeside(start) ==
    /\ last_move # NoMove
    /\ last_move[3]
    /\ row(last_move[2]) = row(start)
    /\ Abs(col(last_move[2]) - col(start)) = 1
    /\ pieces[last_move[1]].player # PlayerOn(start)
    /\ at(row(start) + Forward(PlayerOn(start)), col(last_move[2])) \in Diagonals(start)

SkippedSquare(start) == at(row(start) + Forward(PlayerOn(start)), col(last_move[2]))

C13_PawnDiagonals ==
    \A start \in PawnSquares :
        /\ \A d \in Diagonals(start) :
              d \in PawnMoves(start) <=> HoldsOpponentOf(d, start)
        /\ (SkippedSquareBeside(start) /\ EmptyOnBoard(SkippedSquare(start))) =>
              SkippedSquare(start) \notin PawnMoves(start)

\* A pawn has just double-stepped next to an enemy pawn, which is not offered
\* the empty square behind it, while another pawn is offered a capture on its
\* diagonal.
C13_Witness ==
    /\ \E start \in PawnSquares :
          /\ SkippedSquareBeside(start)
          /\ EmptyOnBoard(SkippedSquare(start))
          /\ SkippedSquare(start) \notin PawnMoves(start)
    /\ \E start \in PawnSquares :
          \E d \in Diagonals(start) : HoldsOpponentOf(d, start) /\ d \in PawnMoves(start)
    /\ \E start \in PawnSquares :
          \E d \in Diagonals(start) :
              /\ is_on_board(d) /\ board[d] # None /\ PlayerOn(d) = PlayerOn(start)
              /\ d \notin PawnMoves(start)

(***************************************************************************)
(* C14: Knight.get_available_moves returns, as a set, exactly those of the *)
(* 8 squares at offsets (+-1,+-2) and (+-2,+-1) from the knight that are   *)
(* on the board and are empty or hold an opposing piece, whatever stands   *)
(* on any other square.                                                    *)
(***************************************************************************)
KnightOffsets == {d \in (-2 .. 2) \X (-2 .. 2) : Abs(d[1]) + Abs(d[2]) = 3}

SquaresOf(kind) == {square \in Squares : board[square] # None /\ pieces[board[square]].kind = kind}

EmptyOrOpponentOf(square, start) ==
    is_on_board(square) /\ (board[square] = None \/ PlayerOn(square) # PlayerOn(start))

HoldsFriendOf(square, start) ==
    is_on_board(square) /\ board[square] # None /\ PlayerOn(square) = PlayerOn(start)

C14_KnightJumps ==
    \A start \in SquaresOf(KNIGHT) :
        Range(get_available_moves(board, pieces, board[start]))
            = {square \in {translate_by(start, d) : d \in KnightOffsets} :
                  EmptyOrOpponentOf(square, start)}

\* A knight with a jump that leaves the board, a jump onto a friendly piece
\* that is not offered, a jump onto an opposing piece that is, and a jump onto
\* an empty square that is.
C14_Witness ==
    \E start \in SquaresOf(KNIGHT) :
        LET moves == Range(get_available_moves(board, pieces, board[start]))
        IN  /\ \E d \in KnightOffsets : ~is_on_board(translate_by(start, d))
            /\ \E d \in KnightOffsets :
                  HoldsFriendOf(translate_by(start, d), start) /\ translate_by(start, d) \notin moves
            /\ \E d \in KnightOffsets :
                  HoldsOpponentOf(translate_by(start, d), start) /\ translate_by(start, d) \in moves
            /\ \E d \in KnightOffsets :
                  EmptyOnBoard(translate_by(start, d)) /\ translate_by(start, d) \in moves

(***************************************************************************)
(* C15: King.get_available_moves contains every one of the 8 squares       *)
(* adjacent to the King that is on the board and is empty or holds an      *)
(* opposing piece, contains no adjacent square holding a friendly piece,   *)
(* and contains no square beyond distance one other than a castling        *)
(* destination (two columns from the King on its row).                     *)
(***************************************************************************)
UnitSteps == ((-1 .. 1) \X (-1 .. 1)) \ {<<0, 0>>}

Adjacent(start) == {translate_by(start, d) : d \in UnitSteps}

CastlingDestinations(start) ==
    {at(row(start), col(start) - 2), at(row(start), col(start) + 2)}

C15_KingSteps ==
    \A start \in {k \in SquaresOf(KING) : find_piece(board, board[k]) = k} :
        LET moves == Range(get_available_moves(board, pieces, board[start]))
        IN  /\ \A square \in Adjacent(start) :
                  /\ EmptyOrOpponentOf(square, start) => square \in moves
                  /\ HoldsFriendOf(square, start) => square \notin moves
            /\ \A square \in moves :
                  square \in Adjacent(start) \cup CastlingDestinations(start)

\* A king on the edge of the board, after a move, with a friendly piece beside
\* it that is not offered, an opposing piece beside it that is, and an empty
\* square two steps away on an open line that is not.
C15_Witness ==
    /\ nmoves >= 1
    /\ \E start \in SquaresOf(KING) :
          LET moves == Range(get_available_moves(board, pieces, board[start]))
          IN  /\ \E square \in Adjacent(start) : ~is_on_board(square)
              /\ \E square \in Adjacent(start) : HoldsFriendOf(square, start) /\ square \notin moves
              /\ \E square \in Adjacent(start) : HoldsOpponentOf(square, start) /\ square \in moves
              /\ \E d \in UnitSteps :
                    /\ EmptyOnBoard(translate_by(start, d))
                    /\ EmptyOnBoard(translate_by(translate_by(start, d), d))
                    /\ translate_by(translate_by(start, d), d) \notin moves

(***************************************************************************)
(* C16: on every board, the set of squares returned by a Queen's           *)
(* get_available_moves equals the union of the sets a Bishop and a Rook of *)
(* the same player would return standing on the Queen's square on the same *)
(* board.                                                                  *)
(***************************************************************************)
\* The moves of a newly constructed piece of the given class, of the player of
\* the piece on start, put on start with set_piece in place of that piece.
MovesOfA(kind, start) ==
    LET ps == Append(pieces, Piece(kind, PlayerOn(start)))
    IN  Range(get_available_moves(set_piece(board, start, Len(ps)), ps, Len(ps)))

C16_QueenIsBishopAndRook ==
    \A start \in SquaresOf(QUEEN) :
        Range(get_available_moves(board, pieces, board[start]))
            = MovesOfA(BISHOP, start) \cup MovesOfA(ROOK, start)

\* After a move, a queen for which the bishop and the rook each contribute
\* squares, among them a capture.
C16_Witness ==
    /\ nmoves >= 1
    /\ \E start \in SquaresOf(QUEEN) :
          /\ MovesOfA(BISHOP, start) # {}
          /\ MovesOfA(ROOK, start) # {}
          /\ \E square \in MovesOfA(BISHOP, start) : board[square] # None
          /\ \E square \in MovesOfA(ROOK, start) : board[square] # None

(***************************************************************************)
(* C17: in_check returns a square iff at least one piece on the board has  *)
(* in its get_available_moves a square occupied by a King; the returned    *)
(* square then holds a King whose player is the opponent of some piece     *)
(* able to move there; otherwise it returns none.  The result does not     *)
(* depend on current_player and the call leaves the board unchanged.       *)
(***************************************************************************)
\* The squares holding a King that some piece of the other player can move to.
AttackedKings ==
    {k \in SquaresOf(KING) :
        \E start \in Squares :
            /\ board[start] # None
            /\ k \in Range(get_available_moves(board, pieces, board[start]))
            /\ PlayerOn(start) = opponent(PlayerOn(k))}

SomeMoveOntoAKing ==
    \E start \in Squares :
        /\ board[start] # None
        /\ \E square \in Range(get_available_moves(board, pieces, board[start])) :
              square \in SquaresOf(KING)

StateUnchanged ==
    /\ board = Pre.board
    /\ current_player = Pre.current_player
    /\ last_move = Pre.last_move
    /\ pieces = Pre.pieces

C17_InCheck ==
    hist.op = "in_check" =>
        /\ returned.raised = ""
        /\ returned.value # NoResult <=> SomeMoveOntoAKing
        /\ returned.value # NoResult => returned.value \in AttackedKings
        /\ returned = in_check([Pre EXCEPT !.current_player = opponent(Pre.current_player)])
        /\ StateUnchanged

\* in_check called after a move, when each player's king is attacked by the
\* other player's knight and BLACK is to move: it returns one of the two squares.
C17_Witness ==
    /\ hist.op = "in_check"
    /\ nmoves = 1
    /\ current_player = BLACK
    /\ Cardinality(AttackedKings) = 2
    /\ returned.value \in AttackedKings

(***************************************************************************)
(* C18: whenever at least one BLACK piece has a non-empty move list,       *)
(* get_bot_move_squares returns, for every outcome of the random draw, a   *)
(* pair (from, to) such that from holds a BLACK piece with at least one    *)
(* available move and to is an element of that same piece's                *)
(* get_available_moves on the current board.                               *)
(***************************************************************************)
\* The squares of the BLACK pieces that have a move.
BotSquares ==
    {start \in Squares :
        /\ board[start] # None
        /\ PlayerOn(start) = BLACK
        /\ get_available_moves(board, pieces, board[start]) # <<>>}

BotCalled == hist.op = "get_bot_move_squares"

C18_BotMoveBelongsToOnePiece ==
    (BotCalled /\ BotSquares # {}) =>
        /\ returned.raised = ""
        /\ Len(returned.value) = 2
        /\ returned.value[1] \in BotSquares
        /\ returned.value[2]
              \in Range(get_available_moves(board, pieces, board[returned.value[1]]))

\* The bot asked after a move, with three or more BLACK pieces able to move, and
\* answering with a move of a piece that is not the first one of the scan.
C18_Witness ==
    /\ BotCalled
    /\ nmoves >= 1
    /\ Cardinality(BotSquares) >= 3
    /\ returned.raised = ""
    /\ \E start \in BotSquares : ScanIndex(start) < ScanIndex(returned.value[1])

(***************************************************************************)
(* C19: for every outcome of the random draw, the capture value of the     *)
(* move returned by get_bot_move_squares (the value of the occupant of its *)
(* destination: Pawn 10, Knight 30, Bishop 30, Rook 50, Queen 90, King     *)
(* 900, empty square 0) equals the maximum capture value over all          *)
(* available moves of all BLACK pieces.                                    *)
(***************************************************************************)
CaptureValue(square) ==
    IF board[square] = None THEN 0
    ELSE CASE pieces[board[square]].kind = PAWN -> 10
           [] pieces[board[square]].kind \in {KNIGHT, BISHOP} -> 30
           [] pieces[board[square]].kind = ROOK -> 50
           [] pieces[board[square]].kind = QUEEN -> 90
           [] pieces[board[square]].kind = KING -> 900

BotCaptureValues ==
    {CaptureValue(square) :
        square \in UNION {Range(get_available_moves(board, pieces, board[start])) :
                              start \in BotSquares}}

C19_BotTakesTheHighestCapture ==
    (BotCalled /\ BotSquares # {}) =>
        \A v \in BotCaptureValues : v <= CaptureValue(returned.value[2])

\* The bot asked when BLACK has moves of three different values, captures of
\* two different pieces among them, and answering with the dearest.
C19_Witness ==
    /\ BotCalled
    /\ Cardinality(BotCaptureValues) >= 3
    /\ returned.raised = ""
    /\ \A v \in BotCaptureValues : v <= CaptureValue(returned.value[2])

(***************************************************************************)
(* C20: if no BLACK piece on the board has any available move (a board     *)
(* with no BLACK piece included), get_bot_move_squares fails with an error *)
(* instead of returning a move, and the board, current_player and          *)
(* last_move are unchanged.                                                *)
(***************************************************************************)
C20_BotFailsWithoutMoves ==
    (BotCalled /\ BotSquares = {}) =>
        /\ returned.raised # ""
        /\ returned.value = NoResult
        /\ StateUnchanged

\* The bot asked on a board where the only BLACK piece is a blocked pawn.
C20_Witness ==
    /\ BotCalled
    /\ BotSquares = {}
    /\ \E start \in Squares : board[start] # None /\ PlayerOn(start) = BLACK
    /\ returned.raised = "IndexError"

(***************************************************************************)
(* C21: find_piece(p) returns the square whose occupant is the instance p  *)
(* itself, whatever other pieces of the same class and player stand on the *)
(* board, and raises when p stands on no square.  Hence piece.move_to and  *)
(* piece.get_available_moves, called for a captured piece or a pawn that   *)
(* was promoted away, raise and leave the board, current_player and        *)
(* last_move as they were.                                                 *)
(***************************************************************************)
CalledOffBoard ==
    /\ hist.op \in {"move_to", "get_available_moves"}
    /\ hist.mover \notin OnBoard(Pre.board)

C21_FindPieceByIdentity ==
    /\ \A p \in OnBoard(board) :
          find_piece(board, p) # NotOnBoard /\ board[find_piece(board, p)] = p
    /\ \A p \in OffBoard : find_piece(board, p) = NotOnBoard
    /\ CalledOffBoard => returned.raised = "Exception" /\ StateUnchanged
    /\ hist.op = "move_to" => CalledOffBoard

\* move_to raised for a captured pawn while another pawn of the same player
\* stands on the board.
C21_Witness ==
    /\ hist.op = "move_to"
    /\ returned.raised = "Exception"
    /\ pieces[hist.mover].kind = PAWN
    /\ \E s \in Squares :
          /\ board[s] # None
          /\ pieces[board[s]].kind = PAWN
          /\ pieces[board[s]].player = pieces[hist.mover].player

\* get_available_moves raised for a pawn that was replaced by its Queen.
C21_WitnessPromoted ==
    /\ hist.op = "get_available_moves"
    /\ returned.raised = "Exception"
    /\ pieces[hist.mover].kind = PAWN
    /\ OffBoard = {hist.mover}
    /\ last_move # NoMove
    /\ last_move[1] = Len(pieces)
    /\ pieces[last_move[1]].kind = QUEEN
    /\ board[last_move[2]] = last_move[1]

(***************************************************************************)
(* C22: the bot pairs every BLACK piece that has moves with its best       *)
(* destination, the first one in the piece's move list that attains the    *)
(* piece's highest capture value, and orders the pairs by the row-major    *)
(* scan of the board.  If the pair drawn at random attains the highest     *)
(* value of all pairs, get_bot_move_squares returns that pair; otherwise   *)
(* it returns the first pair of the scan that attains the highest value.   *)
(* So the draw matters only when the drawn piece ties for the maximum.     *)
(***************************************************************************)
MaxOf(values) == CHOOSE v \in values : \A w \in values : w <= v

PieceValue(start) ==
    MaxOf({CaptureValue(square) :
              square \in Range(get_available_moves(board, pieces, board[start]))})

BestDestination(start) ==
    LET moves == get_available_moves(board, pieces, board[start])
        first == CHOOSE i \in 1 .. Len(moves) :
                    /\ CaptureValue(moves[i]) = PieceValue(start)
                    /\ \A j \in 1 .. i - 1 : CaptureValue(moves[j]) # PieceValue(start)
    IN  moves[first]

BestSquares == {start \in BotSquares : PieceValue(start) = MaxOf(BotCaptureValues)}

FirstBestSquare ==
    CHOOSE start \in BestSquares : \A t \in BestSquares : ScanIndex(start) <= ScanIndex(t)

\* The square of the piece random.choice drew.
DrawnSquare == find_piece(board, hist.mover)

C22_BotTieBreaking ==
    (BotCalled /\ BotSquares # {}) =>
        /\ DrawnSquare \in BotSquares
        /\ returned.value =
              IF DrawnSquare \in BestSquares
              THEN <<DrawnSquare, BestDestination(DrawnSquare)>>
              ELSE <<FirstBestSquare, BestDestination(FirstBestSquare)>>

\* The bot asked when two BLACK pieces tie for a capture, the draw took the one
\* that comes later in the scan, and the answer is the move of the drawn piece.
C22_Witness ==
    /\ BotCalled
    /\ returned.raised = ""
    /\ MaxOf(BotCaptureValues) > 0
    /\ DrawnSquare \in BestSquares
    /\ DrawnSquare # FirstBestSquare
    /\ returned.value[1] = DrawnSquare

\* The bot asked when two BLACK pieces tie for a capture and the draw took a
\* piece with no capture as good: the answer is the first of the two.
C22_WitnessOutsideTheTie ==
    /\ BotCalled
    /\ returned.raised = ""
    /\ Cardinality(BestSquares) >= 2
    /\ DrawnSquare \notin BestSquares
    /\ returned.value[1] = FirstBestSquare

(***************************************************************************)
(* C23: the bot's move selection executes the move it chooses through      *)
(* move_piece: when the bot operation completes on a board where it is     *)
(* the automated side's turn, the chosen piece stands on the chosen        *)
(* destination, its origin is empty, last_move records that move and       *)
(* current_player has passed back to the other side.                       *)
(*                                                                         *)
(* get_bot_move_squares only returns the two squares.  What holds: the     *)
(* call leaves the state as it was, and the pair it returns, passed to     *)
(* move_piece by the caller, is executed with the effects claimed (the     *)
(* piece on the destination being the new Queen when the chosen pawn       *)
(* reaches row 0).                                                         *)
(***************************************************************************)
BotAnsweredOnItsTurn ==
    /\ BotCalled
    /\ returned.raised = ""
    /\ Pre.current_player = BLACK

\* The effects claimed, in the state st, for the pair the bot returned.
BotMoveExecutedIn(st) ==
    LET from_square == returned.value[1]
        to_square == returned.value[2]
        chosen == Pre.board[from_square]
    IN  /\ st.board[to_square] = chosen
        /\ st.board[from_square] = None
        /\ st.last_move # NoMove
        /\ st.last_move[1] = chosen
        /\ st.last_move[2] = to_square
        /\ st.current_player = WHITE

C23_BotExecutesItsMove == BotAnsweredOnItsTurn => BotMoveExecutedIn(St)

\* The same effects, with the Queen in the place of a pawn promoted by the move.
BotMoveOrPromotionExecutedIn(st) ==
    LET from_square == returned.value[1]
        to_square == returned.value[2]
        chosen == Pre.board[from_square]
        placed == IF Pre.pieces[chosen].kind = PAWN /\ row(to_square) = 0
                  THEN Len(Pre.pieces) + 1
                  ELSE chosen
    IN  /\ st.board[to_square] = placed
        /\ placed # chosen => st.pieces[placed] = [kind |-> QUEEN, player |-> BLACK, moved |-> TRUE]
        /\ st.board[from_square] = None
        /\ st.last_move # NoMove
        /\ st.last_move[1] = placed
        /\ st.last_move[2] = to_square
        /\ st.current_player = WHITE

C23_BotReturnsAnExecutableMove ==
    BotAnsweredOnItsTurn =>
        /\ StateUnchanged
        /\ board[returned.value[1]] # None
        /\ BotMoveOrPromotionExecutedIn(move_piece(St, returned.value[1], returned.value[2]))

\* The bot asked after WHITE's move and answering with a capture.
C23_Witness ==
    /\ BotAnsweredOnItsTurn
    /\ nmoves >= 1
    /\ board[returned.value[2]] # None
    /\ board[returned.value[1]] # None
    /\ current_player = BLACK

\* The bot asked on BLACK's turn and answering with a promotion.
C23_WitnessPromotion ==
    /\ BotAnsweredOnItsTurn
    /\ pieces[board[returned.value[1]]].kind = PAWN
    /\ row(returned.value[2]) = 0

(***************************************************************************)
(* C24: check never restricts play.  get_available_moves returns the same  *)
(* squares whether or not the mover's King is attacked, and move_piece     *)
(* executes a generated move after which in_check returns the square of    *)
(* the mover's own King like any other move.  Hence a state in which a     *)
(* King has been captured is reachable by generated moves alone.           *)
(***************************************************************************)
\* The pieces with the Kings of player turned into pawns: a position of the
\* same occupancy in which player has no King to be attacked.
WithoutKingOf(player) ==
    [p \in DOMAIN pieces |->
        IF pieces[p].kind = KING /\ pieces[p].player = player
        THEN [pieces[p] EXCEPT !.kind = PAWN]
        ELSE pieces[p]]

\* The last move left a King of the player who made it on a square in_check reports.
LeftOwnKingAttacked ==
    LET reported == in_check(St).value
    IN  /\ reported # NoResult
        /\ pieces[board[reported]].player = Pre.current_player

C24_CheckNeverRestrictsPlay ==
    /\ \A start \in Squares :
          (board[start] # None /\ PlayerOn(start) = current_player
           /\ pieces[board[start]].kind # KING
           /\ WithoutKingOf(current_player) # pieces) =>
              get_available_moves(board, pieces, board[start])
                 = get_available_moves(board, WithoutKingOf(current_player), board[start])
    /\ (Successful /\ hist.generated /\ LeftOwnKingAttacked) =>
          /\ PlacedOnDestination
          /\ last_move[1] = board[hist.to]
          /\ last_move[2] = hist.to
          /\ current_player = opponent(Pre.current_player)

\* A King captured by a generated move, after a generated move of its owner
\* that left it attacked.
C24_Witness ==
    /\ Successful
    /\ hist.generated
    /\ hist.prior # NoPrior
    /\ Pre.board[hist.to] # None
    /\ Pre.pieces[Pre.board[hist.to]].kind = KING
    /\ SquaresOf(KING) # {}
    /\ \A k \in SquaresOf(KING) : PlayerOn(k) = Pre.current_player

\* in_check called after a generated move and returning the square of the
\* King of the player who made the move.
C24_WitnessInCheck ==
    /\ hist.op = "in_check"
    /\ hist.generated
    /\ nmoves >= 1
    /\ returned.value # NoResult
    /\ pieces[board[returned.value]].kind = KING
    /\ pieces[board[returned.value]].player = opponent(current_player)

(***************************************************************************)
(* C25: piece uniqueness is preserved by move_piece.  From a board on      *)
(* which every piece stands on at most one square, after any sequence of   *)
(* move_piece calls with arbitrary from and to squares of the board,       *)
(* generated or not, every piece still stands on at most one square, so    *)
(* find_piece is unambiguous, and no call increases the number of          *)
(* occupied squares.                                                       *)
(***************************************************************************)
SquaresHolding(b, p) == {s \in Squares : b[s] = p}

Occupied(b) == {s \in Squares : b[s] # None}

C25_PieceUniqueness ==
    /\ \A p \in OnBoard(board) : Cardinality(SquaresHolding(board, p)) = 1
    /\ Called => Cardinality(Occupied(board)) <= Cardinality(Occupied(Pre.board))

\* The same statement for the calls whose from square does not hold a King on
\* column 0 or column 7.
C25_UnlessAKingLeavesTheEdge ==
    \/ /\ Successful
       /\ MoverKind = KING
       /\ col(hist.from) \in {0, 7}
    \/ C25_PieceUniqueness

(***************************************************************************)
(* C26: in a play that starts from an arrangement with last_move = None,   *)
(* uses no set_piece after its first move and takes the destination of     *)
(* every move_piece call from get_available_moves of the moving piece,     *)
(* each successful move changes only its from and to squares:              *)
(* handle_castling relocates no rook and handle_en_passant removes no      *)
(* pawn, so the only piece that leaves the board is the occupant of the    *)
(* destination, or a Pawn replaced by its promotion Queen.                 *)
(***************************************************************************)
\* The last call was a successful move of a play of generated moves only.
GeneratedMove == Successful /\ hist.generated

C26_GeneratedMovesChangeTwoSquares ==
    GeneratedMove =>
        /\ hist.from # hist.to
        /\ OnlyFromAndToChanged
        /\ board[hist.from] = None
        /\ OnBoard(Pre.board) \ OnBoard(board)
              \subseteq {Pre.board[hist.to]} \cup (IF IsPromotion THEN {hist.mover} ELSE {})

\* A pawn has stepped forward from beside the pawn that had just made its
\* double step, which stands where it stood.
C26_Witness ==
    /\ GeneratedMove
    /\ MoverKind = PAWN
    /\ Pre.last_move # NoMove
    /\ Pre.last_move[3]
    /\ row(Pre.last_move[2]) = row(hist.from)
    /\ Abs(col(Pre.last_move[2]) - col(hist.from)) = 1
    /\ col(hist.to) = col(hist.from)
    /\ board[Pre.last_move[2]] = Pre.last_move[1]

\* An unmoved King has stepped towards the unmoved rook in its corner, which
\* stands where it stood.
C26_WitnessKing ==
    /\ GeneratedMove
    /\ MoverKind = KING
    /\ ~Pre.pieces[hist.mover].moved
    /\ hist.to = at(row(hist.from), col(hist.from) + 1)
    /\ UnmovedRookOn(at(row(hist.from), 7), Pre.current_player)

\* A generated promotion onto an occupied square: the pawn and the occupant
\* of the destination have left the board.
C26_WitnessPromotion ==
    /\ GeneratedMove
    /\ IsPromotion
    /\ Pre.board[hist.to] # None
    /\ Cardinality(OnBoard(Pre.board) \ OnBoard(board)) = 2

====
